---- MODULE Spec2Model ----
(***************************************************************************)
(* Model of the mindpulse_api real-time pipeline:                          *)
(*   app/signal/windowing.py        SlidingWindow                          *)
(*   app/domain/pipeline.py         RealtimePipeline                       *)
(*   app/ml/inference.py            CognitiveInference (smoothing state)   *)
(*   app/acquisition/polar_client.py PolarClient (connection state machine)*)
(*   app/storage/session_manager.py SessionManager                         *)
(*   app/api/socket_events.py       Socket.IO handlers                     *)
(*                                                                         *)
(* Time is the value of time.time() in milliseconds, so that               *)
(* `t -= ppi / 1000.0` is the exact subtraction t - ppi.  Scores are in    *)
(* thousandths of a point.                                                 *)
(***************************************************************************)
EXTENDS Integers, Sequences, FiniteSets, TLC

VARIABLES
    \* ---- SlidingWindow, RealtimePipeline, CognitiveInference ----
    now,                   \* last value read from time.time(), ms
    buffer,                \* SlidingWindow._buffer: deque of _Sample
    last_emit_time,        \* SlidingWindow._last_emit_time (0 = 0.0)
    current_hr,            \* RealtimePipeline._current_hr
    last_hr_time,          \* RealtimePipeline._last_hr_time
    early_inference_sent,  \* RealtimePipeline._early_inference_sent
    prev_scores,           \* CognitiveInference._prev_scores (None or scores)
    fatigue_history,       \* CognitiveInference._fatigue_history
    \* ---- SessionManager ----
    active_session,        \* SessionManager._active_session (None or record)
    sessions,              \* Database rows of table sessions, by creation order
    session_result,        \* what the latest start_session or stop_session did:
                           \* "session", "error" (raised), "summary", "nothing"
    \* ---- PolarClient ----
    connection_state,      \* DeviceInfo.connection_state
    device,                \* self._device is not None
    client,                \* self._client is not None
    link,                  \* BleakClient.is_connected: the transport link is up
    running,               \* self._running
    pmd_streaming,         \* self._pmd_streaming
    battery_level,         \* DeviceInfo.battery_level
    subs,                  \* characteristics with notifications started
    quality_window,        \* self._quality_window, the skin-contact flags kept
    signal_quality,        \* DeviceInfo.signal_quality, in thousandths
    \* ---- the device ----
    start_reply,           \* control-point answer to START not yet indicated
    device_ppi,            \* the device is sending PPI frames
    \* ---- coroutines on the background loop ----
    start_pc,              \* where start_monitoring is suspended ("idle": not running)
    progress,              \* what the latest start_monitoring passed to on_progress
    start_status,          \* what handle_start_monitoring has told the client of
                           \* the latest request: "pending" while it waits,
                           \* "streaming", or "failed" (stopped and an error)
    start2_pc,             \* where a start_monitoring accepted while another
                           \* one was in progress is suspended
    attempt,               \* loop variable of PolarClient.connect
    stop_pc,               \* where stop_monitoring is suspended ("idle": not running)
    n_starts,              \* start_monitoring requests accepted so far
    \* ---- observation of the run (history variables) ----
    epoch,                 \* number of resets so far that followed an emission
    windows,               \* every WindowData handed to on_window, with its wall time
    inserted,              \* the intervals given to add_samples since the last reset
    outputs,               \* every InferenceResult handed to the on_inference observer
    hr_seen,               \* what the last _handle_sample with hr > 0 saw and did
    cleaned,               \* the CleanedPPI of the last PPICleaner.clean, or None
    rr_clean,              \* the array PPICleaner.interpolate returned for it,
                           \* in twelfths of a millisecond, or None
    n_frames,              \* PPI frames delivered so far
    n_hr,                  \* HR notifications delivered so far
    last_stop,             \* what the last stop_monitoring left behind
    last_drop              \* what the _on_disconnect that has just run saw and did

pipeVars == <<buffer, last_emit_time, prev_scores, fatigue_history, current_hr,
              early_inference_sent, last_hr_time, epoch, inserted>>
obsVars == <<now, windows, outputs, hr_seen, cleaned, rr_clean, n_frames, n_hr>>
qualVars == <<quality_window, signal_quality>>
dataVars == <<pipeVars, obsVars, qualVars>>
sessVars == <<active_session, sessions, session_result>>
cliVars == <<connection_state, device, client, link, running, pmd_streaming,
             battery_level, subs>>
devVars == <<start_reply, device_ppi>>
reqVars == <<start_status, start2_pc>>
coVars == <<start_pc, attempt, stop_pc, n_starts, progress, reqVars>>
histVars == <<last_stop, last_drop>>
ctlVars == <<cliVars, devVars, coVars, histVars>>
vars == <<dataVars, sessVars, ctlVars>>

\* Python's None, for the fields that hold a record otherwise
None == [none |-> TRUE]

\* nothing recorded: no _on_disconnect has just run, no stop_monitoring has ended
NoDrop == [requested |-> FALSE, stopping |-> FALSE, state_before |-> "disconnected",
           running_before |-> FALSE, had_session |-> FALSE, dirty_before |-> FALSE,
           fired |-> 0, state_after |-> "disconnected", recording_after |-> FALSE,
           summaries_after |-> 0, clean_after |-> TRUE]
NoStop == [raised |-> FALSE, state |-> "disconnected", clean |-> TRUE]

----------------------------------------------------------------------------
(* Configuration: app/config/settings.py *)

window_size_sec == 15
window_step_sec == 1
score_smoothing_alpha_pct == 30
min_ppi_ms == 300
max_ppi_ms == 2000
max_ppi_diff_ratio_pct == 20

W == window_size_sec * 1000
S == window_step_sec * 1000

----------------------------------------------------------------------------
(* Bounds of the model *)

StartClock == 100000      \* time.time() when the process starts
MaxFrames == 3            \* PPI frames delivered in one run of the window harness
MaxHrSamples == 3         \* HR notifications delivered in one run
MaxHrFrames == 1          \* PPI frames delivered in one run of the HR harness
MaxResets == 1            \* session boundaries in one run of a harness
MaxStarts == 2            \* start_monitoring requests in one run
MaxCtlSamples == 1        \* notifications in one run of the whole program
reconnect_attempts == 2   \* BLEConfig.reconnect_attempts

\* Inputs of the data plane
FrameGaps == {0, 3000, 15000}    \* ms between the previous clock read and a PPI frame
HrGaps == {1500, 2500}           \* ms between the previous clock read and an HR sample
EmitLags == {0, 5}               \* ms between the receipt stamp and _try_emit's clock read
Batches == { <<800>>, <<950, 1000, 1000, 1000, 950, 1000>> }
FastStartBatch == <<1040, 1040, 1040, 1040, 1040>>   \* five intervals, 5.2 s in all
HrValues == {0, 72}
RawCalm == [stress |-> 40000, cognitive_load |-> 50000, fatigue |-> 20000]
RawTense == [stress |-> 90000, cognitive_load |-> 10000, fatigue |-> 70000]
RawLow == [stress |-> 0, cognitive_load |-> 0, fatigue |-> 0]
RawHigh == [stress |-> 100000, cognitive_load |-> 100000, fatigue |-> 100000]
RawScores == {RawLow, RawCalm, RawTense, RawHigh}   \* what CognitiveModel.predict returns
ScoreHrValues == {40, 72, 200}                      \* HR values below, in and above the early scale
AlphaPcts == {1, 30, 50, 99}                        \* smoothing factors in (0, 1), in percent

----------------------------------------------------------------------------
(* app/signal/windowing.py *)

RECURSIVE SumFrom(_, _)
SumFrom(s, i) == IF i > Len(s) THEN 0 ELSE s[i] + SumFrom(s, i + 1)

\* add_samples without the second reversal: the batch stays newest-first
ReconstructNewestFirst(ppi_ms, timestamp) ==
    [i \in 1..Len(ppi_ms) |->
        [timestamp |-> timestamp - SumFrom(ppi_ms, Len(ppi_ms) - i + 2),
         ppi_ms |-> ppi_ms[Len(ppi_ms) - i + 1]]]

\* add_samples, lines 50-57: timestamps walk backward from `timestamp`,
\* the batch is then appended oldest-first.
Reconstruct(ppi_ms, timestamp) ==
    [i \in 1..Len(ppi_ms) |->
        [timestamp |-> timestamp - SumFrom(ppi_ms, i + 1), ppi_ms |-> ppi_ms[i]]]

RECURSIVE PopWhileOlder(_, _)
PopWhileOlder(buf, cutoff) ==
    IF buf # <<>> /\ Head(buf).timestamp < cutoff
    THEN PopWhileOlder(Tail(buf), cutoff)
    ELSE buf

\* _evict_old
EvictOld(buf) ==
    IF buf = <<>> THEN buf
    ELSE PopWhileOlder(buf, buf[Len(buf)].timestamp - W)

\* a min_fill without the fast start
MinFillPctAlwaysLater(last) == 60

\* a min_fill that stays at its start-up value
MinFillPctAlwaysFirst(last) == 33

\* min_fill = 0.33 if self._last_emit_time == 0.0 else 0.6, in percent
MinFillPct(last) == IF last = 0 THEN 33 ELSE 60

\* ShouldEmit with the step check of line 78 left out
ShouldEmitNoStep(buf, last, t) ==
    /\ buf # <<>>
    /\ ~((buf[Len(buf)].timestamp - buf[1].timestamp) * 100 < W * MinFillPct(last))

\* the three early returns of _try_emit
ShouldEmit(buf, last, t) ==
    /\ ~(t - last < S)
    /\ buf # <<>>
    /\ ~((buf[Len(buf)].timestamp - buf[1].timestamp) * 100 < W * MinFillPct(last))

\* WindowOf with window_end taken from the head of the buffer
WindowOfEndAtHead(buf) ==
    [ppi_ms |-> [i \in 1..Len(buf) |-> buf[i].ppi_ms],
     timestamps |-> [i \in 1..Len(buf) |-> buf[i].timestamp],
     window_start |-> buf[1].timestamp,
     window_end |-> buf[1].timestamp,
     sample_count |-> Len(buf)]

\* the WindowData snapshot built by _try_emit
WindowOf(buf) ==
    [ppi_ms |-> [i \in 1..Len(buf) |-> buf[i].ppi_ms],
     timestamps |-> [i \in 1..Len(buf) |-> buf[i].timestamp],
     window_start |-> buf[1].timestamp,
     window_end |-> buf[Len(buf)].timestamp,
     sample_count |-> Len(buf)]

----------------------------------------------------------------------------
(* app/signal/ppi_cleaning.py *)

\* a range filter with no upper limit
RangeMaskNoUpper(ppi) == [i \in 1..Len(ppi) |-> ppi[i] >= min_ppi_ms]

\* (ppi >= min_ppi_ms) & (ppi <= max_ppi_ms)
RangeMask(ppi) ==
    [i \in 1..Len(ppi) |-> ppi[i] >= min_ppi_ms /\ ppi[i] <= max_ppi_ms]

\* np.abs(b - a) / a > max_ppi_diff_ratio in IEEE arithmetic: a division by
\* zero gives inf, or nan for 0/0, and a comparison with nan is false
DiffRatioExceeds(a, b) ==
    LET d == IF b >= a THEN b - a ELSE a - b
    IN IF a > 0 THEN d * 100 > max_ppi_diff_ratio_pct * a
       ELSE IF a = 0 THEN d # 0
       ELSE FALSE

\* a succ_mask that is false at the bad index only
SuccMaskFirstOnly(ppi) ==
    LET Bad(i) == i >= 1 /\ i < Len(ppi) /\ DiffRatioExceeds(ppi[i], ppi[i + 1])
    IN [i \in 1..Len(ppi) |-> ~Bad(i)]

\* succ_mask: false at idx and idx + 1 for every bad index
SuccMask(ppi) ==
    LET Bad(i) == i >= 1 /\ i < Len(ppi) /\ DiffRatioExceeds(ppi[i], ppi[i + 1])
    IN [i \in 1..Len(ppi) |-> ~(Bad(i) \/ Bad(i - 1))]

\* PPICleaner.clean; quality_ratio in thousandths
Clean(ppi) ==
    LET n     == Len(ppi)
        mask  == [i \in 1..n |-> RangeMask(ppi)[i] /\ SuccMask(ppi)[i]]
        valid == Cardinality({i \in 1..n : mask[i]})
    IN [ppi_ms |-> ppi,
        intervals_ms |-> ppi,
        mask_valid |-> mask,
        quality_ratio |-> IF n > 0 THEN (valid * 1000) \div n ELSE 0,
        n_original |-> n,
        n_removed |-> n - valid]

\* an interpolation that leaves the invalid intervals as they are
InterpolateNothing(c) == [i \in 1..c.n_original |-> 12 * c.intervals_ms[i]]

\* PPICleaner.interpolate: np.interp over the valid indices, which holds the
\* first and the last valid value outside them; values in twelfths of a
\* millisecond, exact for valid indices up to four apart
Interpolate(c) ==
    LET n         == c.n_original
        valid_idx == {i \in 1..n : c.mask_valid[i]}
        Copy      == [i \in 1..n |-> 12 * c.intervals_ms[i]]
        Below(i)  == {j \in valid_idx : j < i}
        Above(i)  == {j \in valid_idx : j > i}
        Top(js)   == CHOOSE j \in js : \A k \in js : k <= j
        Bottom(js) == CHOOSE j \in js : \A k \in js : k >= j
        Interp(i) ==
            IF Below(i) = {} THEN 12 * c.intervals_ms[Bottom(valid_idx)]
            ELSE IF Above(i) = {} THEN 12 * c.intervals_ms[Top(valid_idx)]
            ELSE LET l == Top(Below(i))
                     r == Bottom(Above(i))
                 IN 12 * c.intervals_ms[l]
                      + ((c.intervals_ms[r] - c.intervals_ms[l]) * (i - l) * 12)
                           \div (r - l)
    IN IF n = 0 \/ valid_idx = 1..n THEN Copy
       ELSE IF Cardinality(valid_idx) < 2 THEN Copy
       ELSE [i \in 1..n |-> IF i \in valid_idx THEN Copy[i] ELSE Interp(i)]

----------------------------------------------------------------------------
(* app/ml/inference.py *)

FatigueMaxLen == 120

\* a * raw + (1 - a) * prev, with a in percent
EmaWith(a, raw, prev) == (a * raw + (100 - a) * prev) \div 100

EmaOf(raw, prev) == EmaWith(score_smoothing_alpha_pct, raw, prev)

\* a smoother that hands the raw scores on
SmoothNothing(prev, raw) == raw

\* _smooth: the value returned (and stored in _prev_scores)
Smooth(prev, raw) ==
    IF prev = None THEN raw
    ELSE [stress |-> EmaOf(raw.stress, prev.stress),
          cognitive_load |-> EmaOf(raw.cognitive_load, prev.cognitive_load),
          fatigue |-> EmaOf(raw.fatigue, prev.fatigue)]

\* append on a deque without maxlen
RingAppendUnbounded(h, x) == Append(h, x)

\* deque(maxlen=120).append
RingAppend(h, x) ==
    LET a == Append(h, x)
    IN IF Len(a) > FatigueMaxLen THEN SubSeq(a, Len(a) - FatigueMaxLen + 1, Len(a)) ELSE a

\* _compute_fatigue_trend: the zero trend of its early return, or the trend
\* fitted by the regression, whose numbers are left out
TrendMinPoints == 6
ZeroTrend == [fitted |-> FALSE, slope |-> 0, predicted_fatigue_10min |-> 0,
              confidence |-> 0]
ComputeFatigueTrend(h) ==
    IF Len(h) < TrendMinPoints THEN ZeroTrend ELSE [fitted |-> TRUE]

----------------------------------------------------------------------------
(* app/domain/pipeline.py: the data plane *)

\* the early estimate taken as computed
NoClamp(x) == x

\* max(0.0, min(100.0, x))
Clamp100(x) == IF x < 0 THEN 0 ELSE IF x > 100000 THEN 100000 ELSE x

\* scores of _emit_early_hr_inference, lines 141-148
EarlyScores(hr) ==
    [stress |-> Clamp100((hr - 60) * 1500),
     cognitive_load |-> Clamp100((hr - 55) * 800),
     fatigue |-> 0]

\* line 88: the guard of the early HR-only inference
EarlyDue(buf, sent) == Len(buf) = 0 /\ ~sent

\* the early outputs of epoch ep, and the timestamp of the last of them
EarlyIn(outs, ep) == {i \in 1..Len(outs) : outs[i].kind = "early" /\ outs[i].epoch = ep}
LastEarlyIn(outs, ep) ==
    outs[CHOOSE i \in EarlyIn(outs, ep) : \A j \in EarlyIn(outs, ep) : j <= i].timestamp

\* SlidingWindow.add_samples called at `timestamp`, with _evict_old, _try_emit
\* and the on_window observer _handle_window inlined.  `lag` is the time
\* between `timestamp` and the clock read of _try_emit, `raw` what
\* CognitiveModel.predict returns for the window if one is emitted, `outs`
\* the outputs delivered before the call.
\* a recorder that stores nothing
RecordNothing(session) == session

\* SessionManager.record_data_point, on the active session
RecordDataPoint(session) ==
    IF session = None THEN session
    ELSE [session EXCEPT !.data_point_count = @ + 1]

\* the step of _handle_window that raises an exception, if one does:
\* process_window, record_data_point or the on_inference observer
Faults == {"none", "inference", "recorder", "observer"}

\* a handler that lets what the observer raises through
ContainedUnlessObserver(fault) == fault # "observer"

\* _handle_window's `except Exception` around the three steps: whatever one
\* of them raises is logged and _handle_window returns
Contained(fault) == fault \in Faults

\* add_samples when the step `fault` of _handle_window raises.  process_window
\* raises in the feature extraction or the prediction, after the cleaning and
\* before the smoothing; insert_data_point raises before the count is updated.
AddSamplesRaising(ppi_ms, timestamp, lag, raw, outs, fault) ==
    LET buf1   == EvictOld(buffer \o Reconstruct(ppi_ms, timestamp))
        tEmit  == timestamp + lag
        emit   == ShouldEmit(buf1, last_emit_time, tEmit)
        scores == Smooth(prev_scores, raw)
        inferred == emit /\ fault # "inference"
        stored == emit /\ fault \in {"none", "observer"}
    IN
    /\ now' = tEmit
    /\ buffer' = buf1
    /\ inserted' = inserted \o ppi_ms
    /\ last_emit_time' = IF emit THEN tEmit ELSE last_emit_time
    /\ windows' = IF emit
                  THEN Append(windows, [at |-> tEmit, epoch |-> epoch,
                                        batch |-> Len(ppi_ms),
                                        fault |-> fault,
                                        returned |-> Contained(fault),
                                        inserted |-> inserted \o ppi_ms,
                                        window |-> WindowOf(buf1)])
                  ELSE windows
    /\ cleaned' = IF emit THEN Clean(WindowOf(buf1).ppi_ms) ELSE cleaned
    /\ rr_clean' = IF emit
                   THEN [values |-> Interpolate(Clean(WindowOf(buf1).ppi_ms))]
                   ELSE rr_clean
    /\ prev_scores' = IF inferred THEN scores ELSE prev_scores
    /\ fatigue_history' = IF inferred
                          THEN RingAppend(fatigue_history, <<tEmit, scores.fatigue>>)
                          ELSE fatigue_history
    /\ active_session' = IF stored THEN RecordDataPoint(active_session)
                         ELSE active_session
    /\ outputs' = IF stored
                  THEN Append(outs, [kind |-> "window", timestamp |-> tEmit, epoch |-> epoch,
                                     scores |-> scores, raw |-> raw,
                                     fatigue_trend |-> ComputeFatigueTrend(
                                         RingAppend(fatigue_history,
                                                    <<tEmit, scores.fatigue>>))])
                  ELSE outs

AddSamples(ppi_ms, timestamp, lag, raw, outs) ==
    AddSamplesRaising(ppi_ms, timestamp, lag, raw, outs, "none")

\* _handle_sample, with _emit_early_hr_inference inlined.  `gap` is the time
\* since the previous clock read; the sample is stamped on receipt.
HandleSampleRaising(gap, lag, hr, ppi_ms, raw, fault) ==
    LET ts     == now + gap
        early  == hr > 0 /\ EarlyDue(buffer, early_inference_sent)
        outs1  == IF early
                  THEN Append(outputs, [kind |-> "early", timestamp |-> ts, epoch |-> epoch,
                                        scores |-> EarlyScores(hr)])
                  ELSE outputs
    IN
    /\ current_hr' = IF hr > 0 THEN hr ELSE current_hr
    /\ last_hr_time' = IF hr > 0 THEN ts ELSE last_hr_time
    /\ early_inference_sent' = (early_inference_sent \/ early)
    /\ hr_seen' = IF hr > 0
                  THEN [timestamp |-> ts, empty |-> Len(buffer) = 0,
                        had_early |-> EarlyIn(outputs, epoch) # {},
                        last_early |-> IF EarlyIn(outputs, epoch) = {} THEN 0
                                       ELSE LastEarlyIn(outputs, epoch),
                        emitted |-> early]
                  ELSE hr_seen
    /\ IF ppi_ms # <<>>
       THEN AddSamplesRaising(ppi_ms, ts, lag, raw, outs1, fault)
       ELSE /\ now' = ts
            /\ outputs' = outs1
            /\ UNCHANGED <<buffer, inserted, last_emit_time, windows, cleaned,
                           rr_clean,
                           prev_scores, fatigue_history, active_session>>
    /\ UNCHANGED <<sessions, session_result, epoch>>

HandleSample(gap, lag, hr, ppi_ms, raw) ==
    HandleSampleRaising(gap, lag, hr, ppi_ms, raw, "none")

\* ---- PMD data frames ----
PMD_TYPE_PPI == 3
PMD_HEADER_SIZE == 10
PMD_SAMPLE_SIZE == 6
quality_window_size == 50

\* struct.unpack_from("<H", ...)
U16(lo, hi) == lo + 256 * hi

\* the bytes that follow the header
Raw(data) == SubSeq(data, PMD_HEADER_SIZE + 1, Len(data))

\* the length check alone
DroppedWhenShort(data) ==
    Len(data) < PMD_HEADER_SIZE + PMD_SAMPLE_SIZE

\* the frames _handle_pmd_data returns on at once, length and type checked
Dropped(data) ==
    \/ Len(data) < PMD_HEADER_SIZE + PMD_SAMPLE_SIZE
    \/ data[1] # PMD_TYPE_PPI

\* the while loop of _handle_pmd_data from byte offset index of raw: whole
\* 6-byte samples, a trailing part of a sample is left out
RECURSIVE ParseSamples(_, _)
ParseSamples(raw, index) ==
    IF index + PMD_SAMPLE_SIZE <= Len(raw)
    THEN <<[ppi |-> U16(raw[index + 2], raw[index + 3]),
            err |-> U16(raw[index + 4], raw[index + 5]),
            skin_contact |-> raw[index + 6] % 2 = 1]>>
         \o ParseSamples(raw, index + PMD_SAMPLE_SIZE)
    ELSE <<>>

Ppis(samples) == [i \in 1..Len(samples) |-> samples[i].ppi]
Qualities(samples) == [i \in 1..Len(samples) |-> samples[i].skin_contact]

\* a window that keeps its first quality_window_size entries
UpdateSignalQualityKeepsOldest(window, qualities) ==
    LET all == window \o qualities
    IN IF Len(all) > quality_window_size THEN SubSeq(all, 1, quality_window_size)
       ELSE all

\* sum(self._quality_window) / len(self._quality_window), in thousandths
MeanOf(window) ==
    (Cardinality({i \in 1..Len(window) : window[i]}) * 1000) \div Len(window)

\* the list _update_signal_quality leaves in self._quality_window
UpdateSignalQuality(window, qualities) ==
    LET all == window \o qualities
    IN IF Len(all) > quality_window_size
       THEN SubSeq(all, Len(all) - quality_window_size + 1, Len(all))
       ELSE all

\* what the device sends: a frame of measurement type 3 with the given
\* frame-type byte, one 6-byte sample per interval
RECURSIVE SampleBytes(_, _)
SampleBytes(ppi_ms, flags) ==
    IF ppi_ms = <<>> THEN <<>>
    ELSE <<0, Head(ppi_ms) % 256, Head(ppi_ms) \div 256, 0, 0, flags>>
         \o SampleBytes(Tail(ppi_ms), flags)

FrameOf(frame_type, ppi_ms, flags) ==
    <<PMD_TYPE_PPI, 0, 0, 0, 0, 0, 0, 0, 0, frame_type>> \o SampleBytes(ppi_ms, flags)

\* PolarClient._handle_hr_data -> _on_sample(PolarSample(timestamp, hr))
HrNotification(gap, hr) ==
    /\ n_hr < MaxHrSamples
    /\ n_hr' = n_hr + 1
    /\ HandleSample(gap, 0, hr, <<>>, RawCalm)
    /\ UNCHANGED <<n_frames, qualVars, cliVars, devVars, coVars, last_stop>>
    /\ last_drop' = NoDrop

\* PolarClient._handle_pmd_data -> _on_sample(PolarSample(timestamp, 0, ppis))
PmdFrameNotificationRaising(gap, lag, data, raw, fault) ==
    /\ n_frames' = n_frames + 1
    /\ IF Dropped(data) \/ ParseSamples(Raw(data), 0) = <<>>
       THEN UNCHANGED <<pipeVars, now, windows, outputs, hr_seen, cleaned,
                        rr_clean,
                        qualVars, sessVars>>
       ELSE LET samples == ParseSamples(Raw(data), 0)
            IN /\ quality_window' = UpdateSignalQuality(quality_window,
                                                        Qualities(samples))
               /\ signal_quality' = IF quality_window' # <<>>
                                    THEN MeanOf(quality_window')
                                    ELSE signal_quality
               /\ HandleSampleRaising(gap, lag, 0, Ppis(samples), raw, fault)
    /\ UNCHANGED <<n_hr, cliVars, devVars, coVars, last_stop>>
    /\ last_drop' = NoDrop

PmdFrameNotification(gap, lag, data, raw) ==
    PmdFrameNotificationRaising(gap, lag, data, raw, "none")

\* a raw PPI frame carrying the intervals ppi_ms, every sample in skin contact
PpiNotification(gap, lag, ppi_ms, raw) ==
    PmdFrameNotification(gap, lag, FrameOf(0, ppi_ms, 7), raw)

\* SlidingWindow.add_samples called by a client of the class, with
\* _handle_window as its on_window observer
AddSamplesCall(gap, lag, ppi_ms) ==
    /\ n_frames' = n_frames + 1
    /\ AddSamples(ppi_ms, now + gap, lag, RawCalm, outputs)
    /\ UNCHANGED <<current_hr, last_hr_time, early_inference_sent, hr_seen, n_hr,
                   qualVars,
                   sessions, session_result, epoch, cliVars, devVars, coVars,
                   last_stop>>
    /\ last_drop' = NoDrop

\* PPICleaner.clean called by a client of the class
CleanCall(ppi) ==
    /\ cleaned' = Clean(ppi)
    /\ rr_clean' = None
    /\ UNCHANGED <<pipeVars, now, windows, outputs, hr_seen, n_frames, n_hr,
                   qualVars, sessVars, cliVars, devVars, coVars, last_stop>>
    /\ last_drop' = NoDrop

\* PPICleaner.interpolate called on the CleanedPPI that clean returned
InterpolateCall ==
    /\ cleaned # None
    /\ rr_clean' = [values |-> Interpolate(cleaned)]
    /\ UNCHANGED <<pipeVars, now, windows, outputs, hr_seen, cleaned, n_frames,
                   n_hr, qualVars, sessVars, cliVars, devVars, coVars, last_stop>>
    /\ last_drop' = NoDrop

\* a stop_session that finalises the record and leaves the session active
StopSessionLeavesActive ==
    /\ sessions' = IF active_session = None THEN sessions
                   ELSE [sessions EXCEPT ![active_session.id] =
                            [@ EXCEPT !.status = "completed",
                                      !.data_points = active_session.data_point_count,
                                      !.summaries = @ + 1]]
    /\ active_session' = active_session
    /\ session_result' = IF active_session = None THEN "nothing" ELSE "summary"

\* a stop_session that finalises the latest session again when none is active
StopSessionAgain ==
    /\ sessions' = IF active_session # None
                   THEN [sessions EXCEPT ![active_session.id] =
                            [@ EXCEPT !.status = "completed",
                                      !.data_points = active_session.data_point_count,
                                      !.summaries = @ + 1]]
                   ELSE IF sessions # <<>>
                   THEN [sessions EXCEPT ![Len(sessions)] =
                            [@ EXCEPT !.summaries = @ + 1]]
                   ELSE sessions
    /\ active_session' = None
    /\ session_result' = IF sessions = <<>> THEN "nothing" ELSE "summary"

\* SessionManager.stop_session
StopSession ==
    /\ sessions' = IF active_session = None THEN sessions
                   ELSE [sessions EXCEPT ![active_session.id] =
                            [@ EXCEPT !.status = "completed",
                                      !.data_points = active_session.data_point_count,
                                      !.summaries = @ + 1]]
    /\ active_session' = None
    /\ session_result' = IF active_session = None THEN "nothing" ELSE "summary"

\* a start_session without its check of the active session
StartSessionReplaces ==
    /\ sessions' = Append(sessions,
                          [status |-> "active", data_points |-> 0, summaries |-> 0])
    /\ active_session' = [id |-> Len(sessions) + 1, data_point_count |-> 0]
    /\ session_result' = "session"

\* SessionManager.start_session
StartSession ==
    IF active_session # None
    THEN /\ session_result' = "error"
         /\ UNCHANGED <<active_session, sessions>>
    ELSE /\ sessions' = Append(sessions,
                          [status |-> "active", data_points |-> 0, summaries |-> 0])
         /\ active_session' = [id |-> Len(sessions) + 1, data_point_count |-> 0]
         /\ session_result' = "session"

\* something was handed to an observer since the last reset
Emitted ==
    \/ \E i \in DOMAIN windows : windows[i].epoch = epoch
    \/ \E i \in DOMAIN outputs : outputs[i].epoch = epoch

\* a reset closes the current stretch of emissions, if there is one
NextEpoch == IF Emitted THEN epoch + 1 ELSE epoch

\* a reset block that leaves the current heart rate in place
ResetPipelineKeepsHr ==
    /\ buffer' = <<>>
    /\ inserted' = <<>>
    /\ last_emit_time' = 0
    /\ prev_scores' = None
    /\ fatigue_history' = <<>>
    /\ early_inference_sent' = FALSE
    /\ epoch' = NextEpoch
    /\ UNCHANGED <<current_hr, last_hr_time>>

\* a reset block whose window keeps its last-emit time
ResetPipelineKeepsLastEmit ==
    /\ buffer' = <<>>
    /\ inserted' = <<>>
    /\ prev_scores' = None
    /\ fatigue_history' = <<>>
    /\ current_hr' = 0
    /\ early_inference_sent' = FALSE
    /\ epoch' = NextEpoch
    /\ UNCHANGED <<last_emit_time, last_hr_time>>

\* the reset block shared by start_monitoring (180-183), stop_monitoring
\* (231-234) and force_stop_session (242-245): _last_hr_time is not touched
ResetPipeline ==
    /\ buffer' = <<>>
    /\ inserted' = <<>>
    /\ last_emit_time' = 0
    /\ prev_scores' = None
    /\ fatigue_history' = <<>>
    /\ current_hr' = 0
    /\ early_inference_sent' = FALSE
    /\ epoch' = NextEpoch
    /\ UNCHANGED last_hr_time

\* RealtimePipeline.force_stop_session
ForceStopSession ==
    /\ epoch < MaxResets
    /\ StopSession
    /\ ResetPipeline
    /\ UNCHANGED <<obsVars, qualVars, cliVars, devVars, coVars, last_stop>>
    /\ last_drop' = NoDrop

----------------------------------------------------------------------------
(* PolarClient and the monitoring coroutines.  A coroutine is suspended at   *)
(* each await on the wireless stack; the action named after the await is     *)
(* its resumption, with the outcome of the awaited call as its input.        *)

Outcomes == {"ok", "raised"}
Channels == {"hr", "ctrl", "data"}
StartStatuses == {0, 1}        \* byte 2 of the control-point response to START
BatteryRead == 80

\* PolarClient.is_connected
IsConnected == client /\ link

\* no coroutine of the background loop is between two calls that it makes
\* without an await in between, so another one can take its next step
LoopFree == stop_pc # "disc_enter"

\* the state the pipeline is in after its reset block
Pristine(buf, last, prev, hist, hr, sent) ==
    /\ buf = <<>>
    /\ last = 0
    /\ prev = None
    /\ hist = <<>>
    /\ hr = 0
    /\ ~sent

\* an await on the wireless stack can only complete normally over a live link
Possible(outcome) == outcome = "ok" => IsConnected

\* start_monitoring goes on to connect whatever scan returned
StartGoesOn ==
    start_pc' = "connect" /\ UNCHANGED <<progress, reqVars>>

\* start_monitoring leaves through an exception: handle_start_monitoring
\* reports the error and nothing is undone
StartFails ==
    /\ start_pc' = "idle"
    /\ start_status' = "failed"
    /\ UNCHANGED <<progress, start2_pc>>

\* socket_events.handle_start_monitoring up to the first await of
\* start_monitoring, which is inside PolarClient.scan
HandleStartMonitoring ==
    /\ LoopFree
    /\ active_session = None
    /\ start_pc = "idle"
    /\ n_starts < MaxStarts
    /\ n_starts' = n_starts + 1
    /\ ResetPipeline
    /\ connection_state' = "scanning"
    /\ start_pc' = "scan"
    /\ progress' = <<"scanning">>
    /\ start_status' = "pending"
    /\ UNCHANGED start2_pc
    /\ UNCHANGED <<obsVars, qualVars, sessVars, device, client, link, running, pmd_streaming,
                   battery_level, subs, devVars, attempt, stop_pc, last_stop>>
    /\ last_drop' = NoDrop

\* PolarClient.scan after BleakScanner.discover, then PolarClient.connect up
\* to the first BleakClient.connect
ScanDone(result) ==
    /\ LoopFree
    /\ start_pc = "scan"
    /\ \/ /\ result = "found"
          /\ device' = TRUE
          /\ connection_state' = "connecting"
          /\ attempt' = 1
          /\ client' = TRUE
          /\ start_pc' = "connect"
          /\ progress' = Append(progress, "connecting")
          /\ UNCHANGED reqVars
       \/ /\ result = "none"
          /\ connection_state' = "disconnected"
          /\ StartFails
          /\ UNCHANGED <<device, attempt, client>>
       \/ /\ result = "raised"
          /\ connection_state' = "error"
          /\ StartFails
          /\ UNCHANGED <<device, attempt, client>>
    /\ UNCHANGED <<dataVars, sessVars, link, running, pmd_streaming, battery_level,
                   subs, devVars, stop_pc, n_starts, last_stop>>
    /\ last_drop' = NoDrop

\* the loop of PolarClient.connect moving to its next attempt, or giving up
NextAttempt ==
    IF attempt < reconnect_attempts
    THEN /\ attempt' = attempt + 1
         /\ client' = TRUE
         /\ start_pc' = "connect"
         /\ UNCHANGED <<connection_state, progress, reqVars>>
    ELSE /\ connection_state' = "error"
         /\ StartFails
         /\ attempt' = 0
         /\ UNCHANGED client

\* PolarClient.connect after BleakClient.connect: "ok" the link is up,
\* "down" the call returned without a link, "raised" it failed
ConnectDone(outcome) ==
    /\ LoopFree
    /\ start_pc = "connect"
    /\ \/ /\ outcome = "ok"
          /\ client
          /\ link' = TRUE
          /\ subs' = IF link THEN subs ELSE {}
          /\ connection_state' = "connected"
          /\ start_pc' = "battery"
          /\ attempt' = 0
          /\ UNCHANGED <<client, progress, reqVars>>
       \/ /\ outcome = "down"
          /\ client
          /\ ~link
          /\ NextAttempt
          /\ UNCHANGED <<link, subs>>
       \/ /\ outcome = "raised"
          /\ start_pc' = "sleep"
          /\ UNCHANGED <<link, subs, connection_state, attempt, client, progress,
                         reqVars>>
    /\ UNCHANGED <<dataVars, sessVars, device, running, pmd_streaming, battery_level,
                   devVars, stop_pc, n_starts, last_stop>>
    /\ last_drop' = NoDrop

\* PolarClient.connect after the sleep that follows a failed attempt
SleepDone ==
    /\ LoopFree
    /\ start_pc = "sleep"
    /\ NextAttempt
    /\ UNCHANGED <<dataVars, sessVars, device, link, running, pmd_streaming,
                   battery_level, subs, devVars, stop_pc, n_starts, last_stop>>
    /\ last_drop' = NoDrop

\* PolarClient._read_battery after its read, the return of connect, and
\* PolarClient.start_streaming up to its first start_notify
BatteryDone(outcome) ==
    /\ LoopFree
    /\ start_pc = "battery"
    /\ Possible(outcome)
    /\ battery_level' = IF outcome = "ok" THEN BatteryRead ELSE battery_level
    /\ IF IsConnected
       THEN /\ running' = TRUE
            /\ connection_state' = "streaming"
            /\ start_pc' = "sub_hr"
            /\ UNCHANGED <<progress, reqVars>>
       ELSE /\ StartFails
            /\ UNCHANGED <<running, connection_state>>
    /\ UNCHANGED <<dataVars, sessVars, device, client, link, pmd_streaming, subs,
                   devVars, attempt, stop_pc, n_starts, last_stop>>
    /\ last_drop' = NoDrop

SubscribePc == [hr |-> "sub_hr", ctrl |-> "sub_ctrl", data |-> "sub_data"]
AfterSubscribe == [hr |-> "sub_ctrl", ctrl |-> "sub_data", data |-> "write_start"]

\* PolarClient.start_streaming after one of its three start_notify calls
SubscribeDone(ch, outcome) ==
    /\ LoopFree
    /\ start_pc = SubscribePc[ch]
    /\ Possible(outcome)
    /\ IF outcome = "ok"
       THEN /\ subs' = subs \cup {ch}
            /\ start_pc' = AfterSubscribe[ch]
            /\ UNCHANGED <<progress, reqVars>>
       ELSE /\ StartFails
            /\ UNCHANGED subs
    /\ UNCHANGED <<dataVars, sessVars, connection_state, device, client, link,
                   running, pmd_streaming, battery_level, devVars, attempt,
                   stop_pc, n_starts, last_stop>>
    /\ last_drop' = NoDrop

\* PolarClient.start_streaming after the write of PMD_START_PPI, then
\* SessionManager.start_session and the end of start_monitoring
WriteStartDone(outcome, status) ==
    /\ LoopFree
    /\ start_pc = "write_start"
    /\ Possible(outcome)
    /\ IF outcome = "ok"
       THEN /\ pmd_streaming' = TRUE
            /\ start_reply' = IF status = 0 THEN "ack" ELSE "nack"
            /\ device_ppi' = (status = 0)
            /\ StartSession
            /\ IF session_result' = "session"
               THEN /\ start_pc' = "idle"
                    /\ progress' = Append(progress, "streaming")
                    /\ start_status' = IF start_status = "pending" THEN "streaming"
                                       ELSE start_status
                    /\ UNCHANGED start2_pc
               ELSE StartFails
       ELSE /\ StartFails
            /\ UNCHANGED <<pmd_streaming, devVars, sessVars>>
    /\ UNCHANGED <<dataVars, connection_state, device, client, link, running,
                   battery_level, subs, attempt, stop_pc, n_starts,
                   last_stop>>
    /\ last_drop' = NoDrop

\* PolarClient._handle_pmd_control on the response to START
HandlePmdControl ==
    /\ LoopFree
    /\ start_reply # "none"
    /\ link
    /\ "ctrl" \in subs
    /\ start_reply' = "none"
    /\ UNCHANGED <<dataVars, sessVars, cliVars, device_ppi, coVars, last_stop>>
    /\ last_drop' = NoDrop

\* the end of PolarClient.disconnect, then the reset block and the return of
\* stop_monitoring
FinishStop ==
    /\ client' = FALSE
    /\ connection_state' = "disconnected"
    /\ ResetPipeline
    /\ stop_pc' = "idle"
    /\ last_stop' = [raised |-> FALSE, state |-> connection_state',
                     clean |-> Pristine(buffer', last_emit_time', prev_scores',
                                        fatigue_history', current_hr',
                                        early_inference_sent')]

\* the end of PolarClient.stop_streaming when the client is not connected:
\* the state is set to Connected all the same and the call returns
StopStreamingOffline ==
    /\ connection_state' = "connected"
    /\ stop_pc' = "disc_enter"
    /\ UNCHANGED <<client, pipeVars, last_stop>>

\* the end of PolarClient.stop_streaming, and PolarClient.disconnect up to
\* its first await when the client is connected
EnterDisconnect ==
    IF IsConnected
    THEN /\ connection_state' = "connected"
         /\ stop_pc' = IF pmd_streaming THEN "disc_write_stop" ELSE "disc"
         /\ UNCHANGED <<client, pipeVars, last_stop>>
    ELSE StopStreamingOffline

\* socket_events.handle_stop_monitoring, SessionManager.stop_session and
\* PolarClient.stop_streaming up to its first await
HandleStopMonitoring ==
    /\ active_session # None
    /\ stop_pc = "idle"
    /\ StopSession
    /\ running' = FALSE
    /\ IF IsConnected
       THEN /\ stop_pc' = IF pmd_streaming THEN "write_stop" ELSE "unsub_hr"
            /\ UNCHANGED <<client, connection_state, pipeVars, last_stop>>
       ELSE StopStreamingOffline
    /\ UNCHANGED <<obsVars, qualVars, device, link, pmd_streaming, battery_level, subs,
                   devVars, start_pc, progress, reqVars, attempt, n_starts>>
    /\ last_drop' = NoDrop

\* PolarClient.stop_streaming after the write of the STOP command
WriteStopDone(outcome) ==
    /\ stop_pc = "write_stop"
    /\ Possible(outcome)
    /\ pmd_streaming' = IF outcome = "ok" THEN FALSE ELSE pmd_streaming
    /\ device_ppi' = IF outcome = "ok" THEN FALSE ELSE device_ppi
    /\ stop_pc' = "unsub_hr"
    /\ UNCHANGED <<dataVars, sessVars, connection_state, device, client, link,
                   running, battery_level, subs, start_reply, start_pc, progress, reqVars,
                   attempt,
                   n_starts, last_stop>>
    /\ last_drop' = NoDrop

UnsubscribePc == [hr |-> "unsub_hr", ctrl |-> "unsub_ctrl", data |-> "unsub_data"]

\* PolarClient.stop_streaming after one of its three stop_notify calls; after
\* the last one the state is set to Connected and disconnect is entered
UnsubscribeDone(ch, outcome) ==
    /\ stop_pc = UnsubscribePc[ch]
    /\ Possible(outcome)
    /\ subs' = IF outcome = "ok" THEN subs \ {ch} ELSE subs
    /\ IF ch = "hr"
       THEN /\ stop_pc' = "unsub_ctrl"
            /\ UNCHANGED <<running, client, connection_state, pipeVars, last_stop>>
       ELSE IF ch = "ctrl"
       THEN /\ stop_pc' = "unsub_data"
            /\ UNCHANGED <<running, client, connection_state, pipeVars, last_stop>>
       ELSE /\ running' = FALSE
            /\ EnterDisconnect
    /\ UNCHANGED <<obsVars, qualVars, sessVars, device, link, pmd_streaming, battery_level,
                   devVars, start_pc, progress, reqVars, attempt, n_starts>>
    /\ last_drop' = NoDrop

\* PolarClient.disconnect on a client that is not connected, then the reset
\* block and the return of stop_monitoring
DisconnectOffline ==
    /\ stop_pc = "disc_enter"
    /\ running' = FALSE
    /\ FinishStop
    /\ UNCHANGED <<obsVars, qualVars, sessVars, device, link, pmd_streaming,
                   battery_level, subs, devVars, start_pc, progress, reqVars, attempt,
                   n_starts>>
    /\ last_drop' = NoDrop

\* PolarClient.disconnect after the write of the STOP command
DisconnectWriteStopDone(outcome) ==
    /\ stop_pc = "disc_write_stop"
    /\ Possible(outcome)
    /\ pmd_streaming' = IF outcome = "ok" THEN FALSE ELSE pmd_streaming
    /\ device_ppi' = IF outcome = "ok" THEN FALSE ELSE device_ppi
    /\ stop_pc' = "disc"
    /\ UNCHANGED <<dataVars, sessVars, connection_state, device, client, link,
                   running, battery_level, subs, start_reply, start_pc, progress, reqVars,
                   attempt,
                   n_starts, last_stop>>
    /\ last_drop' = NoDrop

\* what PolarClient._on_disconnect sees, and what it and its callback leave
DropRecord(requested) ==
    [requested |-> requested,
     stopping |-> stop_pc # "idle",
     state_before |-> connection_state,
     running_before |-> running,
     had_session |-> active_session # None,
     dirty_before |-> ~Pristine(buffer, last_emit_time, prev_scores,
                                fatigue_history, current_hr, early_inference_sent),
     fired |-> IF running THEN 1 ELSE 0,
     state_after |-> connection_state',
     recording_after |-> active_session' # None,
     summaries_after |-> IF active_session = None THEN 0
                         ELSE sessions'[active_session.id].summaries,
     clean_after |-> Pristine(buffer', last_emit_time', prev_scores',
                              fatigue_history', current_hr',
                              early_inference_sent')]

\* PolarClient.disconnect after BleakClient.disconnect: when the call takes
\* a live link down the stack runs _on_disconnect before it returns
DisconnectDone(outcome) ==
    /\ stop_pc = "disc"
    /\ FinishStop
    /\ IF outcome = "ok" /\ link
       THEN /\ link' = FALSE
            /\ subs' = {}
            /\ start_reply' = "none"
            /\ device_ppi' = FALSE
            /\ pmd_streaming' = FALSE
            /\ running' = FALSE
            /\ IF running THEN StopSession ELSE UNCHANGED sessVars
            /\ last_drop' = DropRecord(TRUE)
       ELSE /\ UNCHANGED <<link, subs, devVars, pmd_streaming, running, sessVars>>
            /\ last_drop' = NoDrop
    /\ UNCHANGED <<obsVars, qualVars, device, battery_level, start_pc, progress, reqVars,
                   attempt, n_starts>>

\* the link goes down on its own: PolarClient._on_disconnect, and through
\* its callback socket_events._on_unexpected_disconnect and
\* RealtimePipeline.force_stop_session
LinkDrop ==
    /\ LoopFree
    /\ link
    /\ link' = FALSE
    /\ subs' = {}
    /\ start_reply' = "none"
    /\ device_ppi' = FALSE
    /\ pmd_streaming' = FALSE
    /\ connection_state' = "disconnected"
    /\ running' = FALSE
    /\ IF running
       THEN StopSession /\ ResetPipeline
       ELSE UNCHANGED <<sessVars, pipeVars>>
    /\ last_drop' = DropRecord(FALSE)
    /\ UNCHANGED <<obsVars, qualVars, device, client, battery_level, coVars, last_stop>>

\* handle_stop_monitoring when SessionManager.stop_session raises: the
\* exception leaves stop_monitoring before anything else is done
HandleStopMonitoringRecorderFails ==
    /\ active_session # None
    /\ stop_pc = "idle"
    /\ last_stop' = [raised |-> TRUE, state |-> connection_state,
                     clean |-> Pristine(buffer, last_emit_time, prev_scores,
                                        fatigue_history, current_hr,
                                        early_inference_sent)]
    /\ UNCHANGED <<dataVars, sessVars, cliVars, devVars, coVars>>
    /\ last_drop' = NoDrop

\* notifications reach the handlers while the link is up and the
\* characteristic is subscribed
CtlHrGap == 3000
CtlHr == 72
CtlFrameGap == 3000
CtlBatch == <<900, 1000, 1100, 1000, 900, 1100>>

HandleHrData ==
    /\ LoopFree
    /\ link
    /\ "hr" \in subs
    /\ n_hr + n_frames < MaxCtlSamples
    /\ HrNotification(CtlHrGap, CtlHr)

HandlePmdData ==
    /\ LoopFree
    /\ link
    /\ "data" \in subs
    /\ device_ppi
    /\ n_hr + n_frames < MaxCtlSamples
    /\ PpiNotification(CtlFrameGap, 0, CtlBatch, RawCalm)

\* a PPI frame, FaultFrameGap after the previous clock read, whose window,
\* if one is emitted, makes the step `fault` of _handle_window raise
FaultFrameGap == 6000
MaxFaultFrames == 2       \* PPI frames in one run with steps that raise

HandlePmdDataRaising(fault) ==
    /\ LoopFree
    /\ link
    /\ "data" \in subs
    /\ device_ppi
    /\ n_frames < MaxFaultFrames
    /\ PmdFrameNotificationRaising(FaultFrameGap, 0, FrameOf(0, CtlBatch, 7),
                                   RawTense, fault)

\* an HR notification that follows the PPI frames of the run
MaxLateHr == 1            \* HR notifications after the PPI frames of a run

HandleHrDataAfterPpi ==
    /\ LoopFree
    /\ link
    /\ "hr" \in subs
    /\ n_frames > 0
    /\ n_hr < MaxLateHr
    /\ HrNotification(CtlHrGap, CtlHr)

----------------------------------------------------------------------------
(* Specifications *)

InitCtl ==
    /\ quality_window = <<>>
    /\ signal_quality = 0
    /\ connection_state = "disconnected"
    /\ device = FALSE
    /\ client = FALSE
    /\ link = FALSE
    /\ running = FALSE
    /\ pmd_streaming = FALSE
    /\ battery_level = -1
    /\ subs = {}
    /\ start_reply = "none"
    /\ device_ppi = FALSE
    /\ start_pc = "idle"
    /\ progress = <<>>
    /\ start_status = "none"
    /\ start2_pc = "idle"
    /\ attempt = 0
    /\ stop_pc = "idle"
    /\ n_starts = 0
    /\ last_stop = NoStop
    /\ last_drop = NoDrop

InitData ==
    /\ now = StartClock
    /\ buffer = <<>>
    /\ inserted = <<>>
    /\ last_emit_time = 0
    /\ current_hr = 0
    /\ last_hr_time = 0
    /\ early_inference_sent = FALSE
    /\ prev_scores = None
    /\ fatigue_history = <<>>
    /\ active_session = None
    /\ sessions = <<>>
    /\ session_result = "none"
    /\ epoch = 0
    /\ windows = <<>>
    /\ outputs = <<>>
    /\ hr_seen = None
    /\ cleaned = None
    /\ rr_clean = None
    /\ n_frames = 0
    /\ n_hr = 0

Init == InitData /\ InitCtl

\* the whole program: requests, coroutine steps, the device and the link
Next ==
    \/ HandleStartMonitoring
    \/ \E result \in {"found", "none", "raised"} : ScanDone(result)
    \/ \E outcome \in {"ok", "down", "raised"} : ConnectDone(outcome)
    \/ SleepDone
    \/ \E outcome \in Outcomes : BatteryDone(outcome)
    \/ \E ch \in Channels, outcome \in Outcomes : SubscribeDone(ch, outcome)
    \/ \E outcome \in Outcomes, status \in StartStatuses : WriteStartDone(outcome, status)
    \/ HandlePmdControl
    \/ HandleHrData
    \/ HandlePmdData
    \/ HandleStopMonitoring
    \/ \E outcome \in Outcomes : WriteStopDone(outcome)
    \/ \E ch \in Channels, outcome \in Outcomes : UnsubscribeDone(ch, outcome)
    \/ DisconnectOffline
    \/ \E outcome \in Outcomes : DisconnectWriteStopDone(outcome)
    \/ \E outcome \in Outcomes : DisconnectDone(outcome)
    \/ LinkDrop

Spec == Init /\ [][Next]_vars

\* handle_start_monitoring gives up its wait of 60 s on the background loop
\* and reports the failure; start_monitoring goes on
StartWaitTimesOut ==
    /\ start_pc # "idle"
    /\ start_status = "pending"
    /\ start_status' = "failed"
    /\ UNCHANGED <<dataVars, sessVars, cliVars, devVars, start_pc, attempt, stop_pc,
                   n_starts, progress, start2_pc, last_stop>>
    /\ last_drop' = NoDrop

\* handle_start_monitoring while a session is recorded: "Monitoring already
\* active" is sent and nothing else is done
HandleStartMonitoringRejected ==
    /\ active_session # None
    /\ UNCHANGED <<dataVars, sessVars, cliVars, devVars, coVars, last_stop>>
    /\ last_drop' = NoDrop

\* handle_start_monitoring while another start_monitoring is in progress and
\* no session is recorded yet: the request passes the is_recording check and
\* a second start_monitoring runs up to the await inside PolarClient.scan
HandleStartMonitoringOverlapping ==
    /\ LoopFree
    /\ active_session = None
    /\ start_pc # "idle"
    /\ start2_pc = "idle"
    /\ n_starts < MaxStarts
    /\ n_starts' = n_starts + 1
    /\ ResetPipeline
    /\ connection_state' = "scanning"
    /\ start2_pc' = "scan"
    /\ UNCHANGED <<obsVars, qualVars, sessVars, device, client, link, running,
                   pmd_streaming, battery_level, subs, devVars, start_pc, attempt,
                   stop_pc, progress, start_status, last_stop>>
    /\ last_drop' = NoDrop

\* the scan of the second start_monitoring ends without the device, which
\* does not advertise while the first one holds it, or with an error
OverlappingScanDone(result) ==
    /\ LoopFree
    /\ start2_pc = "scan"
    /\ connection_state' = IF result = "none" THEN "disconnected" ELSE "error"
    /\ start2_pc' = "idle"
    /\ UNCHANGED <<dataVars, sessVars, device, client, link, running, pmd_streaming,
                   battery_level, subs, devVars, start_pc, attempt, stop_pc,
                   n_starts, progress, start_status, last_stop>>
    /\ last_drop' = NoDrop

\* the whole program with requests that arrive while a start is in progress
\* or a session is recorded, and with waits that time out
NextRequests ==
    \/ Next
    \/ StartWaitTimesOut
    \/ HandleStartMonitoringRejected
    \/ HandleStartMonitoringOverlapping
    \/ \E result \in {"none", "raised"} : OverlappingScanDone(result)

SpecRequests == Init /\ [][NextRequests]_vars

\* the whole program with a session store whose stop_session can raise
NextRecorderFault ==
    \/ Next
    \/ HandleStopMonitoringRecorderFails

SpecRecorderFault == Init /\ [][NextRecorderFault]_vars

\* the whole program with HR notifications after the PPI frames
NextLateHr ==
    \/ Next
    \/ HandleHrDataAfterPpi

SpecLateHr == Init /\ [][NextLateHr]_vars

\* the whole program, over runs of MaxFaultStarts requests to start, with
\* steps of _handle_window that raise
MaxFaultStarts == 1

NextWindowFault ==
    \/ Next /\ n_starts' <= MaxFaultStarts
    \/ \E fault \in Faults : HandlePmdDataRaising(fault)

SpecWindowFault == Init /\ [][NextWindowFault]_vars

\* SlidingWindow under PPI frames and session boundaries
NextWindow ==
    \/ /\ n_frames < MaxFrames
       /\ \E gap \in FrameGaps, lag \in EmitLags, ppi_ms \in Batches :
              PpiNotification(gap, lag, ppi_ms, RawCalm)
    \/ ForceStopSession

SpecWindow == Init /\ [][NextWindow]_vars

\* SlidingWindow on its own: add_samples with any list, the empty one included
NextSlidingWindow ==
    /\ n_frames < MaxFrames
    /\ \E gap \in FrameGaps, lag \in EmitLags, ppi_ms \in Batches \cup {<<>>, FastStartBatch} :
           AddSamplesCall(gap, lag, ppi_ms)

SpecSlidingWindow == Init /\ [][NextSlidingWindow]_vars

\* the notifications of the PMD data characteristic: raw PPI frames with
\* and without skin contact, a frame of another frame type, a frame of
\* another measurement type, a frame cut short, a frame with a partial sample
GoodFrame == FrameOf(0, <<800>>, 7)
Frames ==
    { GoodFrame,
      FrameOf(0, <<1000>>, 6),
      FrameOf(0, CtlBatch, 7),
      FrameOf(1, <<800>>, 7),
      <<2>> \o Tail(GoodFrame),
      SubSeq(GoodFrame, 1, PMD_HEADER_SIZE + PMD_SAMPLE_SIZE - 1),
      GoodFrame \o <<0, 32>> }

FrameStep(gap, data) == PmdFrameNotification(gap, 0, data, RawCalm)

NextFrames ==
    /\ n_frames < MaxFrames
    /\ \E gap \in FrameGaps, data \in Frames : FrameStep(gap, data)

SpecFrames == Init /\ [][NextFrames]_vars

\* PPICleaner.clean on lists of up to MaxIntervals intervals, in range, out
\* of range on either side, zero, and more than the ratio apart
MaxIntervals == 3
Intervals == {0, 250, 800, 1000, 2500}
IntervalLists == UNION {[1..n -> Intervals] : n \in 0..MaxIntervals}

\* an ectopic beat between regular ones
EctopicBeat == <<800, 800, 400, 800, 800>>

\* an ectopic beat while the rhythm slows down, and a first interval cut short
DriftingBeat == <<1000, 1000, 400, 800, 800>>
LateContact == <<400, 800, 800, 800>>

NextCleaner ==
    \/ \E ppi \in IntervalLists \cup {EctopicBeat, DriftingBeat, LateContact} :
           CleanCall(ppi)
    \/ InterpolateCall

SpecCleaner == Init /\ [][NextCleaner]_vars

\* the session manager called by a client of the class, in any order
MaxSessions == 3
MaxPoints == 3

StartSessionCall ==
    /\ active_session = None => Len(sessions) < MaxSessions
    /\ StartSession
    /\ UNCHANGED <<dataVars, cliVars, devVars, coVars, last_stop>>
    /\ last_drop' = NoDrop

StopSessionCall ==
    /\ StopSession
    /\ UNCHANGED <<dataVars, cliVars, devVars, coVars, last_stop>>
    /\ last_drop' = NoDrop

RecordDataPointCall ==
    /\ active_session # None => active_session.data_point_count < MaxPoints
    /\ active_session' = RecordDataPoint(active_session)
    /\ UNCHANGED <<sessions, session_result, dataVars, cliVars, devVars, coVars,
                   last_stop>>
    /\ last_drop' = NoDrop

NextSessions == StartSessionCall \/ StopSessionCall \/ RecordDataPointCall

SpecSessions == Init /\ [][NextSessions]_vars

\* a long session: one-sample PPI frames 15 s apart, each emitting a window
\* from the second on, with scores and skin contact varying, and a reset
\* once the fatigue history is full
MaxLongFrames == 123
MaxVariedFrames == 3
LongRaws == IF n_frames < MaxVariedFrames THEN {RawCalm, RawTense} ELSE {RawCalm}
LongFlags == IF n_frames < MaxVariedFrames THEN {6, 7}
             ELSE IF n_frames % 3 = 0 THEN {6} ELSE {7}

NextLongRun ==
    \/ /\ n_frames < MaxLongFrames
       /\ \E raw \in LongRaws, flags \in LongFlags :
              PmdFrameNotification(15000, 0, FrameOf(0, <<800>>, flags), raw)
    \/ /\ Len(fatigue_history) = FatigueMaxLen
       /\ ForceStopSession

SpecLongRun == Init /\ [][NextLongRun]_vars

\* the scores delivered to the observer: windows that follow one another
\* with every model output, HR samples across the early scale, and resets
NextScores ==
    \/ /\ n_hr + n_frames < MaxFrames
       /\ \E raw \in RawScores : PpiNotification(15000, 0, CtlBatch, raw)
    \/ /\ n_hr + n_frames < MaxFrames
       /\ \E hr \in ScoreHrValues : HrNotification(1500, hr)
    \/ ForceStopSession

SpecScores == Init /\ [][NextScores]_vars

\* the HR path of _handle_sample, with one PPI frame and session boundaries
NextHr ==
    \/ \E gap \in HrGaps, hr \in HrValues : HrNotification(gap, hr)
    \/ /\ n_frames < MaxHrFrames
       /\ PpiNotification(3000, 0, <<800>>, RawCalm)
    \/ ForceStopSession

SpecHr == Init /\ [][NextHr]_vars

----------------------------------------------------------------------------
(* Properties of the sliding window *)

\* C1 as stated: the wall-clock times of any two window emissions of a run
\* (add_samples and reset interleaved in any way) differ by at least
\* window_step_sec.
C1_AnyTwoEmissionsStepApart ==
    \A i, j \in 1..Len(windows) :
        i < j => windows[j].at - windows[i].at >= S

\* C1 amended: any two window emissions with no reset between them differ by
\* at least window_step_sec in wall-clock time.
C1_EmissionsStepApartBetweenResets ==
    \A i, j \in 1..Len(windows) :
        (i < j /\ windows[i].epoch = windows[j].epoch)
            => windows[j].at - windows[i].at >= S

\* two windows were emitted with no reset between them, and a frame that came
\* less than a step after the last emission was held back
C1_Witness ==
    /\ \E i, j \in 1..Len(windows) : i < j /\ windows[i].epoch = windows[j].epoch
    /\ buffer # <<>>
    /\ last_emit_time # 0
    /\ buffer[Len(buffer)].timestamp > windows[Len(windows)].window.window_end
    /\ buffer[Len(buffer)].timestamp - last_emit_time < S

\* C2: the timestamps held in the window buffer are non-decreasing from head
\* to tail after any sequence of add_samples calls stamped with non-decreasing
\* receipt times.
C2_BufferTimestampsSorted ==
    \A i \in 1..(Len(buffer) - 1) : buffer[i].timestamp <= buffer[i + 1].timestamp

\* C3: after add_samples returns, no buffered entry is older than the newest
\* buffered timestamp minus window_size_sec.
C3_NothingOlderThanWindow ==
    \A i \in 1..Len(buffer) :
        buffer[i].timestamp >= buffer[Len(buffer)].timestamp - W

\* C10: of two successive window emissions with no reset between them, the
\* later has the strictly greater window_end.
C10_WindowEndStrictlyIncreasing ==
    \A i \in 1..(Len(windows) - 1) :
        windows[i].epoch = windows[i + 1].epoch
            => windows[i + 1].window.window_end > windows[i].window.window_end

\* two successive windows of one session, the later holding the samples of
\* the earlier and more
C10_Witness ==
    \E i \in 1..(Len(windows) - 1) :
        /\ windows[i].epoch = windows[i + 1].epoch
        /\ windows[i + 1].window.sample_count > windows[i].window.sample_count
        /\ windows[i + 1].window.window_start = windows[i].window.window_start

----------------------------------------------------------------------------
(* Properties of the HR-only fallback *)

\* C4: an HR sample (hr > 0) that arrives while the window buffer is empty
\* produces an early HR-only inference if and only if no early output was sent
\* since the last reset or at least 3 s have passed since the last one.
C4_EarlyEveryThreeSeconds ==
    (hr_seen # None /\ hr_seen.empty)
        => (hr_seen.emitted <=>
                (~hr_seen.had_early \/ hr_seen.timestamp - hr_seen.last_early >= 3000))

----------------------------------------------------------------------------
(* Properties of the sensor client and of the session boundaries *)

\* C5: when the device answers START PPI with a non-zero status, after that
\* response the connection state is not Streaming and the PPI-streaming flag
\* is not set.
C5_NackedStartNotStreaming ==
    [][(start_reply = "nack" /\ start_reply' = "none" /\ link')
           => (connection_state' # "streaming" /\ ~pmd_streaming')]_vars

\* C6: the client enters Streaming only once the HR and both vendor channels
\* are subscribed and the START command has been written; and a start whose
\* subscription or START write fails does not leave the state Streaming.
C6_StreamingOnlyAfterStart ==
    [][/\ (connection_state # "streaming" /\ connection_state' = "streaming")
            => (subs' = Channels /\ pmd_streaming')
       /\ (start_pc \in {"sub_hr", "sub_ctrl", "sub_data", "write_start"}
              /\ start_pc' = "idle" /\ active_session' = None)
            => connection_state' # "streaming"]_vars

\* C7: whichever of its steps fail, stop_monitoring ends with the client
\* Disconnected and the pipeline state reset.
C7_StopAlwaysTearsDown ==
    last_stop.state = "disconnected" /\ last_stop.clean

\* C8: a link drop that no stop or disconnect was asked for leaves the client
\* Disconnected and fires the unexpected-disconnect callback once if the
\* client was Streaming and not at all otherwise; a disconnect the client
\* asked for never fires it.
C8_CallbackIffStreaming ==
    /\ (~last_drop.requested /\ ~last_drop.stopping)
         => /\ last_drop.state_after = "disconnected"
            /\ last_drop.fired =
                  (IF last_drop.state_before = "streaming" THEN 1 ELSE 0)
    /\ last_drop.requested => last_drop.fired = 0

----------------------------------------------------------------------------
(* Properties of window emission *)

RECURSIVE MaxOf(_)
MaxOf(s) == IF Len(s) = 1 THEN s[1]
            ELSE LET m == MaxOf(Tail(s)) IN IF s[1] > m THEN s[1] ELSE m

RECURSIVE MinOf(_)
MinOf(s) == IF Len(s) = 1 THEN s[1]
            ELSE LET m == MinOf(Tail(s)) IN IF s[1] < m THEN s[1] ELSE m

\* newest minus oldest timestamp of the i-th emitted window
SpanOfWindow(i) ==
    MaxOf(windows[i].window.timestamps) - MinOf(windows[i].window.timestamps)

\* the i-th emitted window is the first since construction or the last reset
FirstSinceReset(i) ==
    \A j \in 1..(i - 1) : windows[j].epoch # windows[i].epoch

\* the fill fraction, in percent, that the i-th emission has to reach
FillNeeded(i) == IF FirstSinceReset(i) THEN 33 ELSE 60

\* C11 as stated: every emitted window covers a span that exceeds 0.33 x
\* window_size_sec if it is the first emission since construction or reset,
\* and exceeds 0.60 x window_size_sec otherwise.
C11_SpanExceedsMinFill ==
    \A i \in 1..Len(windows) : SpanOfWindow(i) * 100 > W * FillNeeded(i)

\* C11 amended: every emitted window covers a span of at least 0.33 x
\* window_size_sec if it is the first emission since construction or reset,
\* and of at least 0.60 x window_size_sec otherwise.
C11_SpanAtLeastMinFill ==
    \A i \in 1..Len(windows) : SpanOfWindow(i) * 100 >= W * FillNeeded(i)

\* a first window went out below the 0.60 fill, a later one of the same
\* session at or above it, and a frame between the two fills was held back
C11_Witness ==
    /\ \E i, j \in 1..Len(windows) :
          /\ i < j
          /\ windows[i].epoch = windows[j].epoch
          /\ FirstSinceReset(i)
          /\ SpanOfWindow(i) * 100 < W * 60
          /\ SpanOfWindow(j) * 100 >= W * 60
    /\ n_frames > Len(windows)

\* C12: no window is emitted by a call that adds an empty PPI batch,
\* whatever the buffer holds and however long ago the last emission was.
C12_EmptyBatchNeverEmits ==
    \A i \in 1..Len(windows) : windows[i].batch > 0

\* s is what is left of t after dropping some of its first elements
IsSuffix(s, t) ==
    /\ Len(s) <= Len(t)
    /\ \A k \in 1..Len(s) : s[k] = t[Len(t) - Len(s) + k]

\* C13: the interval array of every emitted window is a contiguous suffix
\* (hence a subsequence in insertion order) of the intervals inserted since
\* the last reset; its timestamps array has the same length, and
\* sample_count is that length.
C13_WindowIsSuffixOfInserted ==
    \A i \in 1..Len(windows) :
        /\ IsSuffix(windows[i].window.ppi_ms, windows[i].inserted)
        /\ Len(windows[i].window.timestamps) = Len(windows[i].window.ppi_ms)
        /\ windows[i].window.sample_count = Len(windows[i].window.ppi_ms)

\* a window went out after eviction: it holds several intervals, fewer than
\* were inserted, and they are not all alike
C13_Witness ==
    \E i \in 1..Len(windows) :
        /\ windows[i].window.sample_count >= 2
        /\ windows[i].window.sample_count < Len(windows[i].inserted)
        /\ windows[i].window.ppi_ms[1] # windows[i].window.ppi_ms[2]

----------------------------------------------------------------------------
(* Properties of the scores *)

InRange(x) == 0 <= x /\ x <= 100000

EarlyStep ==
    /\ Len(outputs') = Len(outputs) + 1
    /\ outputs'[Len(outputs')].kind = "early"

\* C15: every early HR-only output goes through the smoother of the window
\* outputs: it becomes the previous scores the next output is smoothed
\* against, and its fatigue is appended to the fatigue history, which grows
\* by one entry.
C15_EarlyOutputSmoothedAndRecorded ==
    [][EarlyStep =>
         /\ prev_scores' = outputs'[Len(outputs')].scores
         /\ Len(fatigue_history') = Len(fatigue_history) + 1]_vars

----------------------------------------------------------------------------
(* Properties of connecting *)

\* PolarClient.connect returns True: the battery read that precedes the
\* return is over
ConnectReturnsSuccess == start_pc = "battery" /\ start_pc' # "battery"

\* PolarClient.connect returns False: the loop ran out of attempts
ConnectReturnsFailure == start_pc \in {"connect", "sleep"} /\ start_pc' = "idle"

\* C16: connect makes at most reconnect_attempts attempts and then returns;
\* when all of them failed the state is Error and it returns failure; when
\* one succeeded it returns success, whatever the battery read did, and the
\* state is Connected.
C16_ConnectOutcome ==
    [][/\ attempt' <= reconnect_attempts
       /\ ConnectReturnsFailure =>
             attempt = reconnect_attempts /\ connection_state' = "error"
       /\ ConnectReturnsSuccess => connection_state = "connected"]_vars

\* C17: when the scan completes without a matching device the state becomes
\* Disconnected and start_monitoring fails: the request is over, no connect
\* attempt is made (no client object, no attempt counted) and no session is
\* created.
C17_ScanWithoutMatchFails ==
    [][ScanDone("none") =>
         /\ connection_state' = "disconnected"
         /\ start_pc' = "idle"
         /\ client' = client /\ attempt' = attempt /\ link' = link
         /\ active_session' = None
         /\ sessions' = sessions]_vars

\* a first request whose scan found nothing is over
C17_Witness ==
    /\ n_starts = 1
    /\ start_pc = "idle"
    /\ ~device
    /\ connection_state = "disconnected"
    /\ ~client /\ attempt = 0
    /\ sessions = <<>> /\ active_session = None

----------------------------------------------------------------------------
(* Properties of the PMD data frames *)

\* nothing reached the pipeline and the signal-quality window is as it was
NothingDelivered ==
    /\ UNCHANGED <<buffer, inserted, windows, outputs, now>>
    /\ UNCHANGED quality_window

\* C18: a data frame whose frame-type byte (byte 9) is not 0x00 is dropped:
\* no sample is delivered and the signal-quality window is not updated.
C18_NonRawFrameDropped ==
    [][\A gap \in FrameGaps, data \in Frames :
         (Len(data) > 9 /\ data[10] # 0 /\ FrameStep(gap, data))
            => NothingDelivered]_vars

\* C19: a data frame whose first byte is not 0x03, or shorter than 16 bytes,
\* is dropped silently: no sample is delivered, and the signal-quality
\* window, the DeviceInfo fields and the connection state stay as they were.
C19_ForeignOrShortFrameDropped ==
    [][\A gap \in FrameGaps, data \in Frames :
         ((data[1] # 3 \/ Len(data) < 16) /\ FrameStep(gap, data)) =>
            /\ NothingDelivered
            /\ UNCHANGED <<connection_state, battery_level, device>>]_vars

\* a raw PPI frame was delivered and another frame was dropped
C19_Witness ==
    /\ n_frames = 2
    /\ Len(inserted) = 1
    /\ Len(quality_window) = 1

----------------------------------------------------------------------------
(* Properties of recording *)

----------------------------------------------------------------------------
(* Properties of the reset *)

\* stop_monitoring returns in this step
StopReturns ==
    \/ stop_pc # "idle" /\ stop_pc' = "idle"
    \/ HandleStopMonitoring /\ stop_pc' = "idle"

\* C21: when stop_monitoring or force_stop_session returns, and when
\* start_monitoring has run its first lines, the window buffer is empty and
\* the last-emit time cleared, the previous scores and the fatigue history
\* are empty, and current HR, last HR time and the early-output flag have
\* their initial values.
C21_BoundariesResetEverything ==
    [][(StopReturns \/ ForceStopSession \/ HandleStartMonitoring) =>
         /\ Pristine(buffer', last_emit_time', prev_scores', fatigue_history',
                     current_hr', early_inference_sent')
         /\ last_hr_time' = 0]_vars

\* no window has been emitted since construction or the last reset
NoWindowYet(ws, ep) == \A i \in 1..Len(ws) : ws[i].epoch # ep

\* C22: a reset clears the buffer and the last-emit time, so that until the
\* next emission the window is in its fast start: it holds back only a buffer
\* spanning less than 0.33 x window_size_sec; and a reset of a state that a
\* reset has just left changes nothing in the window, the previous scores
\* and the fatigue history.
C22_ResetRestoresFastStart ==
    [][/\ NoWindowYet(windows', epoch') =>
             /\ last_emit_time' = 0
             /\ \/ buffer' = <<>>
                \/ (buffer'[Len(buffer')].timestamp - buffer'[1].timestamp) * 100
                      < 33 * W
       /\ (ForceStopSession /\ buffer = <<>> /\ last_emit_time = 0
              /\ prev_scores = None /\ fatigue_history = <<>>) =>
             UNCHANGED <<buffer, last_emit_time, prev_scores, fatigue_history>>]_vars

\* a window went out, a reset followed, and the next window went out with
\* less than the 0.60 fill
C22_Witness ==
    \E i, j \in 1..Len(windows) :
        /\ windows[i].epoch = 0 /\ windows[j].epoch = 1
        /\ SpanOfWindow(j) * 100 < 60 * W
        /\ buffer # <<>>

\* the step is the first add_samples on a window that holds nothing and has
\* emitted nothing, and it emits one window holding the whole buffer
FreshWindow == buffer = <<>> /\ last_emit_time = 0 /\ inserted = <<>>
EmitsWholeBuffer ==
    /\ Len(windows') = Len(windows) + 1
    /\ windows'[Len(windows')].window.ppi_ms
          = [i \in 1..Len(buffer') |-> buffer'[i].ppi_ms]

----------------------------------------------------------------------------
(* Properties of the cleaner *)

ValidIn(c) == {i \in 1..Len(c.mask_valid) : c.mask_valid[i]}

\* C24: whatever the input of clean, quality_ratio is the number of valid
\* entries over the number of entries (0 for an empty input) and lies in
\* [0, 1], n_removed plus the number of valid entries is n_original, and
\* every interval marked valid lies in [min_ppi_ms, max_ppi_ms].
C24_CleanedCountsAgree ==
    cleaned # None =>
        /\ Len(cleaned.mask_valid) = Len(cleaned.ppi_ms)
        /\ cleaned.n_original = Len(cleaned.ppi_ms)
        /\ cleaned.quality_ratio >= 0 /\ cleaned.quality_ratio <= 1000
        /\ cleaned.ppi_ms = <<>> => cleaned.quality_ratio = 0
        /\ cleaned.ppi_ms # <<>> =>
              cleaned.quality_ratio
                = (Cardinality(ValidIn(cleaned)) * 1000) \div Len(cleaned.ppi_ms)
        /\ cleaned.n_removed + Cardinality(ValidIn(cleaned)) = cleaned.n_original
        /\ \A i \in ValidIn(cleaned) :
              cleaned.intervals_ms[i] >= 300 /\ cleaned.intervals_ms[i] <= 2000

\* a list with valid and removed entries was cleaned: one in range and kept,
\* one above the range
C24_Witness ==
    /\ cleaned # None
    /\ cleaned.ppi_ms = <<800, 800, 2500>>
    /\ cleaned.n_removed = 2
    /\ cleaned.quality_ratio = 333

----------------------------------------------------------------------------
(* Properties of the inference engine *)

\* the window outputs before the i-th output and since the same reset
WindowOutputsBefore(i) ==
    {j \in 1..(i - 1) : outputs[j].kind = "window" /\ outputs[j].epoch = outputs[i].epoch}

\* C25: the first window output after construction or after a reset carries
\* the raw scores unchanged, and every later one carries, for each of the
\* three scores, alpha * raw + (1 - alpha) * the previous window output.
C25_ScoresAreEma ==
    \A i \in 1..Len(outputs) :
        outputs[i].kind = "window" =>
            LET before == WindowOutputsBefore(i)
                last == CHOOSE j \in before : \A k \in before : k <= j
                o == outputs[i]
            IN IF before = {} THEN o.scores = o.raw
               ELSE LET p == outputs[last].scores
                    IN /\ o.scores.stress = (30 * o.raw.stress + 70 * p.stress) \div 100
                       /\ o.scores.cognitive_load
                            = (30 * o.raw.cognitive_load + 70 * p.cognitive_load) \div 100
                       /\ o.scores.fatigue = (30 * o.raw.fatigue + 70 * p.fatigue) \div 100

\* a window output was smoothed away from its raw scores, a reset followed,
\* and the next window output carries raw scores that differ from the last
\* output before the reset
C25_Witness ==
    \E i, j, k \in 1..Len(outputs) :
        /\ i < j /\ j < k
        /\ outputs[i].kind = "window" /\ outputs[j].kind = "window"
        /\ outputs[k].kind = "window"
        /\ outputs[i].epoch = 0 /\ outputs[j].epoch = 0 /\ outputs[k].epoch = 1
        /\ outputs[j].scores # outputs[j].raw
        /\ outputs[k].scores = outputs[k].raw
        /\ outputs[k].scores # outputs[j].scores

\* the (timestamp, fatigue) points of the window outputs since the last reset
IsWindowOutputNow(o) == o.kind = "window" /\ o.epoch = epoch
FatiguePoints ==
    LET ws == SelectSeq(outputs, IsWindowOutputNow)
    IN [i \in 1..Len(ws) |-> <<ws[i].timestamp, ws[i].scores.fatigue>>]

\* C26: the fatigue history holds at most 120 points, and they are the most
\* recent ones since the last reset in arrival order (none after a reset);
\* a trend computed from fewer than 6 points is (0, 0, 0).
C26_FatigueHistoryIsRing ==
    /\ Len(fatigue_history) <= 120
    /\ LET pts == FatiguePoints
           n == Len(pts)
       IN fatigue_history = SubSeq(pts, IF n > 120 THEN n - 119 ELSE 1, n)
    /\ \A i \in 1..Len(outputs) :
          (outputs[i].kind = "window" /\ Cardinality(WindowOutputsBefore(i)) < 5) =>
              /\ outputs[i].fatigue_trend.slope = 0
              /\ outputs[i].fatigue_trend.predicted_fatigue_10min = 0
              /\ outputs[i].fatigue_trend.confidence = 0

\* more than 120 windows went out in one session and the oldest point is gone
C26_Witness ==
    /\ Len(FatiguePoints) > 120
    /\ Len(fatigue_history) = 120
    /\ fatigue_history[1] # FatiguePoints[1]
    /\ outputs[Len(outputs)].fatigue_trend.fitted

----------------------------------------------------------------------------
(* Properties of the signal quality *)

\* the last 50 entries of a list of skin-contact bits
Last50(bits) == SubSeq(bits, IF Len(bits) > 50 THEN Len(bits) - 49 ELSE 1, Len(bits))

\* C27: the signal-quality window holds at most 50 bits, each accepted PPI
\* frame leaves in it the 50 most recent of the bits it held and the bits of
\* the frame, and signal_quality is then the mean of the window, in [0, 1].
C27_SignalQualityIsWindowMean ==
    [][/\ Len(quality_window') <= 50
       /\ signal_quality' >= 0 /\ signal_quality' <= 1000
       /\ \A flags \in {6, 7}, raw \in RawScores :
             PmdFrameNotification(15000, 0, FrameOf(0, <<800>>, flags), raw) =>
                /\ quality_window' = Last50(Append(quality_window, flags % 2 = 1))
                /\ signal_quality'
                     = (1000 * Cardinality({i \in 1..Len(quality_window') :
                                              quality_window'[i]}))
                          \div Len(quality_window')]_vars

\* more than 50 frames were accepted, with and without skin contact
C27_Witness ==
    /\ n_frames > 51
    /\ Len(quality_window) = 50
    /\ signal_quality > 0 /\ signal_quality < 1000
    /\ quality_window[50] /\ ~quality_window[48]

----------------------------------------------------------------------------
(* Properties of the order of teardown and of start *)

\* the steps of stop_monitoring that may follow one another
StopOrder ==
    { <<"idle", "write_stop">>, <<"idle", "unsub_hr">>,
      <<"write_stop", "unsub_hr">>, <<"unsub_hr", "unsub_ctrl">>,
      <<"unsub_ctrl", "unsub_data">>, <<"unsub_data", "disc_write_stop">>,
      <<"unsub_data", "disc">>, <<"idle", "disc_enter">>,
      <<"unsub_data", "disc_enter">>, <<"disc_enter", "idle">>,
      <<"disc_write_stop", "disc">>, <<"disc", "idle">> }

StartOrder ==
    { <<"idle", "scan">>, <<"scan", "connect">>, <<"connect", "sleep">>,
      <<"sleep", "connect">>, <<"connect", "battery">>, <<"battery", "sub_hr">>,
      <<"sub_hr", "sub_ctrl">>, <<"sub_ctrl", "sub_data">>,
      <<"sub_data", "write_start">>, <<"write_start", "idle">> }
        \cup { <<pc, "idle">> : pc \in {"scan", "connect", "sleep", "battery",
                                        "sub_hr", "sub_ctrl", "sub_data"} }

AllProgress == <<"scanning", "connecting", "streaming">>

\* C29: start_monitoring scans, connects, starts streaming and creates the
\* session in that order and reports "scanning", "connecting", "streaming" in
\* that order; the session is created by the step that ends start_streaming,
\* and a start that ends without having reported "streaming" leaves the
\* sessions as they were.
C29_StartCreatesSessionLast ==
    [][/\ start_pc' # start_pc => <<start_pc, start_pc'>> \in StartOrder
       /\ progress' = SubSeq(AllProgress, 1, Len(progress'))
       /\ start_pc' = "scan" => progress' = <<"scanning">>
       /\ start_pc' \notin {"idle", "scan"} => progress' = <<"scanning", "connecting">>
       /\ active_session = None /\ active_session' # None =>
             /\ start_pc = "write_start" /\ start_pc' = "idle"
             /\ pmd_streaming'
             /\ progress = <<"scanning", "connecting">>
             /\ progress' = AllProgress
             /\ sessions'[active_session'.id].status = "active"
       /\ start_pc # "idle" /\ start_pc' = "idle" /\ progress' # AllProgress =>
             UNCHANGED sessVars
       /\ Len(sessions') > Len(sessions) => active_session = None /\ active_session' # None]_vars

\* one start failed and created no session, and the next one went through
\* all its steps and created the first session
C29_Witness ==
    /\ n_starts = 2
    /\ start_pc = "idle"
    /\ progress = AllProgress
    /\ Len(sessions) = 1
    /\ active_session # None

----------------------------------------------------------------------------
(* Properties of the session manager *)

ActiveRows == {i \in DOMAIN sessions : sessions[i].status = "active"}

\* C30: start_session on an active session raises and leaves the session and
\* the stored sessions as they were, so at most one session is active and it
\* is the one the manager holds; stop_session without an active session
\* returns nothing and changes nothing; record_data_point without an active
\* session records nothing.
C30_OneActiveSession ==
    [][/\ StartSessionCall /\ active_session # None =>
             /\ session_result' = "error"
             /\ active_session' = active_session /\ sessions' = sessions
       /\ StopSessionCall /\ active_session = None =>
             /\ session_result' = "nothing"
             /\ active_session' = None /\ sessions' = sessions
       /\ RecordDataPointCall /\ active_session = None =>
             active_session' = None /\ sessions' = sessions
       /\ Cardinality({i \in DOMAIN sessions' : sessions'[i].status = "active"}) <= 1
       /\ \A i \in DOMAIN sessions' :
             sessions'[i].status = "active" =>
                active_session' # None /\ active_session'.id = i]_vars

\* start_session was refused while the second session, with data points of
\* its own, was active
C30_Witness ==
    /\ session_result = "error"
    /\ active_session # None
    /\ active_session.id = 2 /\ active_session.data_point_count = 2
    /\ ActiveRows = {2}

----------------------------------------------------------------------------
(* Properties of the mask and of the interpolation *)

\* C31: an interval that differs from the one before it by more than
\* max_ppi_diff_ratio of that one makes the pair invalid; a mask entry is true
\* exactly when its interval is in range and in no such pair; the mask of
\* [800, 800, 400, 800, 800] is true at the two ends only, with quality 0.40,
\* and a single interval gets the range mask.
C31_MaskIsRangeAndNoBadPair ==
    cleaned # None =>
        LET p == cleaned.ppi_ms
            m == cleaned.mask_valid
            Diff(i) == IF p[i + 1] >= p[i] THEN p[i + 1] - p[i] ELSE p[i] - p[i + 1]
            BadPair(i) == /\ i >= 1 /\ i < Len(p)
                          /\ Diff(i) * 100 > 20 * p[i]
            Physiological(i) == p[i] >= 300 /\ p[i] <= 2000
        IN /\ \A i \in 1..Len(p) :
                 m[i] <=> (Physiological(i) /\ ~BadPair(i) /\ ~BadPair(i - 1))
           /\ \A i \in 1..Len(p) : BadPair(i) => ~m[i] /\ ~m[i + 1]
           /\ p = <<800, 800, 400, 800, 800>> =>
                 /\ m = <<TRUE, FALSE, FALSE, FALSE, TRUE>>
                 /\ cleaned.quality_ratio = 400
           /\ Len(p) = 1 => m[1] = Physiological(1)

\* the ectopic beat was cleaned: the beat and both its neighbours are invalid
C31_Witness ==
    /\ cleaned # None
    /\ cleaned.ppi_ms = <<800, 800, 400, 800, 800>>
    /\ cleaned.n_removed = 3
    /\ ~cleaned.mask_valid[4] /\ cleaned.mask_valid[5]

\* what interpolate is to return for the CleanedPPI c, in twelfths of a
\* millisecond
InterpolatedFrom(c, r) ==
    LET p == c.intervals_ms
        V == {i \in 1..Len(p) : c.mask_valid[i]}
        Between(l, i, h) ==
            /\ l \in V /\ h \in V /\ l < i /\ i < h
            /\ \A j \in V : j <= l \/ j >= h
            /\ r[i] * (h - l) = 12 * (p[l] * (h - i) + p[h] * (i - l))
        HeldLeft(i) ==
            /\ \A j \in V : j > i
            /\ \E h \in V : (\A j \in V : j >= h) /\ r[i] = 12 * p[h]
        HeldRight(i) ==
            /\ \A j \in V : j < i
            /\ \E l \in V : (\A j \in V : j <= l) /\ r[i] = 12 * p[l]
    IN /\ Len(r) = Len(p)
       /\ \A i \in V : r[i] = 12 * p[i]
       /\ V = 1..Len(p) \/ Cardinality(V) < 2 =>
             \A i \in 1..Len(p) : r[i] = 12 * p[i]
       /\ V # 1..Len(p) /\ Cardinality(V) >= 2 =>
             \A i \in (1..Len(p)) \ V :
                \/ \E l \in V, h \in V : Between(l, i, h)
                \/ HeldLeft(i)
                \/ HeldRight(i)

----------------------------------------------------------------------------
(* Properties of the connection state and of the requests *)

\* C33: while the connection state is Connected or Streaming the transport
\* link is connected
C33_ConnectedMeansLinkUp ==
    connection_state \in {"connected", "streaming"} => IsConnected

\* C34: a start_monitoring request is accepted only while no other start
\* is in progress and no session is recorded; otherwise it is rejected and
\* neither resets the pipeline nor drives the client.
C34_OneStartAtATime ==
    [][start_pc # "idle" \/ start2_pc # "idle" \/ active_session # None =>
          /\ n_starts' = n_starts
          /\ connection_state' # "scanning" \/ connection_state = "scanning"]_vars

\* C35: once handle_start_monitoring has reported the failure of a request,
\* the wait of 60 s that times out included, no session is created for it.
C35_NoSessionAfterReportedFailure ==
    [][start_status = "failed" /\ start_status' = "failed" =>
          Len(sessions') = Len(sessions)]_vars

\* C36: while no start and no stop is in progress, a client in the Streaming
\* state has an active session, and a start that failed has not left the
\* client streaming or connected without one.
C36_StreamingMeansSession ==
    start_pc = "idle" /\ start2_pc = "idle" /\ stop_pc = "idle" =>
        (connection_state \in {"streaming", "connected"} => active_session # None)

----------------------------------------------------------------------------
(* Properties of the window processing under exceptions *)

\* the window handed to _handle_window by this step
NewWindow == windows'[Len(windows')]

\* C38: an exception raised while an emitted window is processed (by the
\* inference, by the recorder write or by the inference observer) stays in
\* the pipeline: add_samples returns normally, the buffer still holds the
\* samples of the window, the client's connection state and link are as
\* before, the emission is stamped as any other, and later frames emit a
\* window exactly when the step and the fill allow it, a window processed
\* without an exception reaching the observer whatever happened to the
\* windows before it.
C38_WindowErrorContained ==
    [][/\ Len(windows') > Len(windows) =>
             /\ NewWindow.returned
             /\ buffer' # <<>>
             /\ [i \in DOMAIN buffer' |-> buffer'[i].ppi_ms] = NewWindow.window.ppi_ms
             /\ cliVars' = cliVars
             /\ last_emit_time' = NewWindow.at
             /\ NewWindow.fault = "none" =>
                   /\ Len(outputs') = Len(outputs) + 1
                   /\ outputs'[Len(outputs')].kind = "window"
                   /\ outputs'[Len(outputs')].timestamp = NewWindow.at
       /\ n_frames' > n_frames =>
             (Len(windows') > Len(windows)
                 <=> ShouldEmit(buffer', last_emit_time, now'))]_vars

\* a window whose recorder write raised, then a window of the same session
\* processed and recorded, the client streaming throughout
C38_Witness ==
    /\ Len(windows) = 2
    /\ windows[1].fault = "recorder" /\ windows[2].fault = "none"
    /\ windows[1].epoch = windows[2].epoch
    /\ connection_state = "streaming"
    /\ active_session # None /\ active_session.data_point_count = 1
    /\ Len(buffer) = 2 * Len(CtlBatch)
    /\ outputs[Len(outputs)].kind = "window"
    /\ outputs[Len(outputs)].timestamp = windows[2].at

----------------------------------------------------------------------------
(* Properties of the eviction and of the early inference *)

\* an early HR-only inference is handed to the observer by this step
EarlyEmitted ==
    \E i \in (Len(outputs) + 1)..Len(outputs') : outputs'[i].kind = "early"

\* C39: the eviction keeps the newest sample, so a step that adds a
\* non-empty batch leaves the buffer non-empty with that sample at its end,
\* and only a reset empties the buffer; no early HR-only inference is
\* emitted while the active session has already received PPI samples.
C39_NoEarlyAfterPpi ==
    [][/\ (n_frames' > n_frames /\ inserted' # inserted) =>
             /\ buffer' # <<>>
             /\ buffer'[Len(buffer')].ppi_ms = inserted'[Len(inserted')]
       /\ (buffer # <<>> /\ buffer' = <<>>) => inserted' = <<>>
       /\ EarlyEmitted =>
             ~(active_session # None /\ active_session.data_point_count > 0)]_vars

====
